---------------------------- MODULE Spec2Model ----------------------------
(***************************************************************************)
(* A model of the RCT1/RCT2 legacy data layer of OpenRCT2                  *)
(* (src/openrct2/rct12/RCT12.h): the packed coordinate pair, the tile      *)
(* element tagged union with its typed accessors, the legacy flag bits,    *)
(* the index and money conversions, and the research list.                 *)
(*                                                                         *)
(* Every record of the legacy format is a run of bytes; a byte is a number *)
(* in 0..255 and a struct is the record of its fields in declaration       *)
(* order.  Multi-byte integers are little-endian, as in the file format.   *)
(***************************************************************************)
EXTENDS Integers, Sequences, FiniteSets, TLC

Byte == 0..255

\* a & mask for two bytes, bit by bit
RECURSIVE BitAnd(_, _)
BitAnd(a, b) ==
    IF a = 0 \/ b = 0 THEN 0
    ELSE (a % 2) * (b % 2) + 2 * BitAnd(a \div 2, b \div 2)

\* the null pointer: a value that is no struct
nullptr == [null |-> TRUE]

(***************************************************************************)
(* Bounds of the model.                                                    *)
(***************************************************************************)
\* the padding bytes of a tile element are drawn from 0..MaxPadLow and 255
MaxPadLow == 0

EdgeBytes == (0..MaxPadLow) \cup {255}

(***************************************************************************)
(* RCT12xy8: two bytes x, y overlaid by the 16-bit xy.                     *)
(***************************************************************************)
RCT12_XY8_UNDEFINED == 65535

\* the struct's two bytes of storage
RCT12xy8 == [x : Byte, y : Byte]

\* the union member xy read from the two bytes
xy(c) == c.x + 256 * c.y

\* the two bytes after xy is written
WithXY(v) == [x |-> v % 256, y |-> v \div 256]

\* a null check that looks at the bytes one by one
IsNull_AnyByte(c) == c.x = 255 \/ c.y = 255

IsNull(c) == xy(c) = RCT12_XY8_UNDEFINED

SetNull(c) == WithXY(RCT12_XY8_UNDEFINED)

(***************************************************************************)
(* RCT12TileElementType and the direct conversion to the modern type.      *)
(***************************************************************************)
RCT12TileElementType_Surface == 0
RCT12TileElementType_Path == 1
RCT12TileElementType_Track == 2
RCT12TileElementType_SmallScenery == 3
RCT12TileElementType_Entrance == 4
RCT12TileElementType_Wall == 5
RCT12TileElementType_LargeScenery == 6
RCT12TileElementType_Banner == 7
RCT12TileElementType_Corrupt == 8
RCT12TileElementType_EightCarsCorrupt14 == 14
RCT12TileElementType_EightCarsCorrupt15 == 15

\* the enumeration without its last member
RCT12TileElementType_NoCorrupt15 ==
    { RCT12TileElementType_Surface, RCT12TileElementType_Path,
      RCT12TileElementType_Track, RCT12TileElementType_SmallScenery,
      RCT12TileElementType_Entrance, RCT12TileElementType_Wall,
      RCT12TileElementType_LargeScenery, RCT12TileElementType_Banner,
      RCT12TileElementType_Corrupt, RCT12TileElementType_EightCarsCorrupt14 }

\* the enumerators of enum class RCT12TileElementType
RCT12TileElementType ==
    { RCT12TileElementType_Surface, RCT12TileElementType_Path,
      RCT12TileElementType_Track, RCT12TileElementType_SmallScenery,
      RCT12TileElementType_Entrance, RCT12TileElementType_Wall,
      RCT12TileElementType_LargeScenery, RCT12TileElementType_Banner,
      RCT12TileElementType_Corrupt, RCT12TileElementType_EightCarsCorrupt14,
      RCT12TileElementType_EightCarsCorrupt15 }

\* what the switch's default branch does
Throws == [ok |-> FALSE, what |-> "This tile element type cannot be converted directly!"]

Returns(v) == [ok |-> TRUE, value |-> v]

\* the switch with Corrupt added to the case labels
ToOpenRCT2TileElementType_AlsoCorrupt(rct12type) ==
    IF rct12type \in 0..8 THEN Returns(rct12type) ELSE Throws

ToOpenRCT2TileElementType(rct12type) ==
    CASE rct12type = RCT12TileElementType_Surface -> Returns(rct12type)
      [] rct12type = RCT12TileElementType_Path -> Returns(rct12type)
      [] rct12type = RCT12TileElementType_Track -> Returns(rct12type)
      [] rct12type = RCT12TileElementType_SmallScenery -> Returns(rct12type)
      [] rct12type = RCT12TileElementType_Entrance -> Returns(rct12type)
      [] rct12type = RCT12TileElementType_Wall -> Returns(rct12type)
      [] rct12type = RCT12TileElementType_LargeScenery -> Returns(rct12type)
      [] rct12type = RCT12TileElementType_Banner -> Returns(rct12type)
      [] OTHER -> Throws

(***************************************************************************)
(* RCT12TileElement: 8 bytes, a 4-byte header and 4 kind-specific bytes.   *)
(***************************************************************************)
\* the struct laid over an 8-byte buffer
RCT12TileElement(buf) ==
    [type |-> buf[1], flags |-> buf[2], base_height |-> buf[3],
     clearance_height |-> buf[4], pad_04 |-> <<buf[5], buf[6], buf[7], buf[8]>>]

\* the 8 bytes of the struct, as they are written back
TileElementBytes(e) ==
    <<e.type, e.flags, e.base_height, e.clearance_height>> \o e.pad_04

\* The kind tag of the type byte.  Bits 0-1 and 6 of the byte are the surface
\* masks and bit 7 is the chain-lift flag, which leaves bits 2..5 to the tag.
GetType(e) == (e.type \div 4) % 16

\* template<TType, TClass> as(): the element itself when its type is TClass
as(e, TClass) == IF GetType(e) = TClass THEN e ELSE nullptr

AsSurface(e) == as(e, RCT12TileElementType_Surface)
AsPath(e) == as(e, RCT12TileElementType_Path)
AsTrack(e) == as(e, RCT12TileElementType_Track)
AsSmallScenery(e) == as(e, RCT12TileElementType_SmallScenery)
AsLargeScenery(e) == as(e, RCT12TileElementType_LargeScenery)

\* the wall accessor with the class of the accessor next to it
AsWall_EntranceClass(e) == as(e, RCT12TileElementType_Entrance)

AsWall(e) == as(e, RCT12TileElementType_Wall)
AsEntrance(e) == as(e, RCT12TileElementType_Entrance)
AsBanner(e) == as(e, RCT12TileElementType_Banner)

\* the eight typed accessors of RCT12TileElement, by name
Accessors ==
    { "AsSurface", "AsPath", "AsTrack", "AsSmallScenery", "AsLargeScenery",
      "AsWall", "AsEntrance", "AsBanner" }

CallAccessor(name, e) ==
    CASE name = "AsSurface" -> AsSurface(e)
      [] name = "AsPath" -> AsPath(e)
      [] name = "AsTrack" -> AsTrack(e)
      [] name = "AsSmallScenery" -> AsSmallScenery(e)
      [] name = "AsLargeScenery" -> AsLargeScenery(e)
      [] name = "AsWall" -> AsWall(e)
      [] name = "AsEntrance" -> AsEntrance(e)
      [] name = "AsBanner" -> AsBanner(e)

\* Classification of a buffer at load: a tag of the enumeration gives the
\* element, any other tag is a decode failure.
DecodeTileElement(buf) ==
    LET e == RCT12TileElement(buf)
    IN  IF GetType(e) \in RCT12TileElementType
        THEN [ok |-> TRUE, element |-> e]
        ELSE [ok |-> FALSE, element |-> nullptr]


(***************************************************************************)
(* The flag byte of a tile element (RCT12TileElementBase::flags).          *)
(***************************************************************************)
RCT12_TILE_ELEMENT_FLAG_GHOST == 2^4
RCT12_TILE_ELEMENT_FLAG_BROKEN == 2^5

\* the block-brake flag moved onto the bit of the blocked-by-vehicle flag
RCT12_TILE_ELEMENT_FLAG_BLOCK_BRAKE_CLOSED_Bit6 == 2^6

RCT12_TILE_ELEMENT_FLAG_BLOCK_BRAKE_CLOSED == 2^5
RCT12_TILE_ELEMENT_FLAG_INDESTRUCTIBLE_TRACK_PIECE == 2^6
RCT12_TILE_ELEMENT_FLAG_BLOCKED_BY_VEHICLE == 2^6
RCT12_TILE_ELEMENT_FLAG_LARGE_SCENERY_ACCOUNTED == 2^6
RCT12_TILE_ELEMENT_FLAG_LAST_TILE == 2^7

\* RCT12TrackElement::BlockBrakeClosed
BlockBrakeClosed(e) == BitAnd(e.flags, RCT12_TILE_ELEMENT_FLAG_BLOCK_BRAKE_CLOSED) # 0

\* RCT12TrackElement::IsIndestructible
IsIndestructible(e) ==
    BitAnd(e.flags, RCT12_TILE_ELEMENT_FLAG_INDESTRUCTIBLE_TRACK_PIECE) # 0

\* RCT12PathElement::IsBroken
IsBroken(e) == BitAnd(e.flags, RCT12_TILE_ELEMENT_FLAG_BROKEN) # 0

\* RCT12PathElement::IsBlockedByVehicle
IsBlockedByVehicle(e) == BitAnd(e.flags, RCT12_TILE_ELEMENT_FLAG_BLOCKED_BY_VEHICLE) # 0

(***************************************************************************)
(* Object entry indices and ride ids: 8 bits in the legacy format, 16 bits *)
(* in the modern one, each with its own null value.                        *)
(***************************************************************************)
\* a legacy null index that is one short of the largest uint8_t
RCT12_OBJECT_ENTRY_INDEX_NULL_254 == 255 - 1

RCT12_OBJECT_ENTRY_INDEX_NULL == 255
RCT12_RIDE_ID_NULL == 255

\* the modern null values: the largest value of the 16-bit identifier
OBJECT_ENTRY_INDEX_NULL == 65535
RIDE_ID_NULL == 65535

RCTEntryIndexToOpenRCT2EntryIndex(index) ==
    IF index = RCT12_OBJECT_ENTRY_INDEX_NULL THEN OBJECT_ENTRY_INDEX_NULL ELSE index

\* the result is an RCT12ObjectEntryIndex: 8 bits
OpenRCT2EntryIndexToRCTEntryIndex(index) ==
    IF index = OBJECT_ENTRY_INDEX_NULL THEN RCT12_OBJECT_ENTRY_INDEX_NULL
    ELSE index % 256

RCT12RideIdToOpenRCT2RideId(rideId) ==
    IF rideId = RCT12_RIDE_ID_NULL THEN RIDE_ID_NULL ELSE rideId

\* the result is an RCT12RideId: 8 bits
OpenRCT2RideIdToRCT12RideId(rideId) ==
    IF rideId = RIDE_ID_NULL THEN RCT12_RIDE_ID_NULL ELSE rideId % 256

(***************************************************************************)
(* Completed company value: money32 in the legacy format, money64 in the   *)
(* modern one.  The model keeps the two's complement layout and the ratio  *)
(* of the widths and scales them down: money32 has MoneyBits bits and      *)
(* money64 twice as many, so 0x80000001 is the pattern 10...01 of          *)
(* MoneyBits bits.                                                         *)
(***************************************************************************)
MoneyBits == 8

Money32Min == -(2^(MoneyBits - 1))
Money32Max == 2^(MoneyBits - 1) - 1
money32 == Money32Min..Money32Max

Money64Min == -(2^(2 * MoneyBits - 1))
Money64Max == 2^(2 * MoneyBits - 1) - 1
money64 == Money64Min..Money64Max

\* a value narrowed to money32: its low MoneyBits bits, read as signed
ToMoney32(v) ==
    LET low == v % 2^MoneyBits
    IN  IF low > Money32Max THEN low - 2^MoneyBits ELSE low

\* the sentinel without its low bit: 0x80000000
RCT12_COMPANY_VALUE_ON_FAILED_OBJECTIVE_NoLowBit == Money32Min

\* 0x80000001 as a money32
RCT12_COMPANY_VALUE_ON_FAILED_OBJECTIVE == Money32Min + 1

\* the modern sentinel: the same pattern, 0x8000000000000001, as a money64
COMPANY_VALUE_ON_FAILED_OBJECTIVE == Money64Min + 1

RCT12CompletedCompanyValueToOpenRCT2(origValue) ==
    IF origValue = RCT12_COMPANY_VALUE_ON_FAILED_OBJECTIVE
    THEN COMPANY_VALUE_ON_FAILED_OBJECTIVE
    ELSE origValue * 10

\* the export with the quotient rounded towards zero
OpenRCT2CompletedCompanyValueToRCT12_Truncating(origValue) ==
    IF origValue = COMPANY_VALUE_ON_FAILED_OBJECTIVE
    THEN RCT12_COMPANY_VALUE_ON_FAILED_OBJECTIVE
    ELSE IF origValue < 0 THEN ToMoney32(-((-origValue) \div 10))
         ELSE ToMoney32(origValue \div 10)

OpenRCT2CompletedCompanyValueToRCT12(origValue) ==
    IF origValue = COMPANY_VALUE_ON_FAILED_OBJECTIVE
    THEN RCT12_COMPANY_VALUE_ON_FAILED_OBJECTIVE
    ELSE ToMoney32(origValue \div 10)

(***************************************************************************)
(* RCT12ResearchItem: 5 bytes; rawValue overlays the first four.  A 32-bit *)
(* value is kept as its two 16-bit halves.                                 *)
(***************************************************************************)
U32(hi, lo) == [hi |-> hi, lo |-> lo]

\* an end marker that repeats the value of the marker before it
RCT12_RESEARCHED_ITEMS_END_2_SameAsEnd == U32(65535, 65534)

\* an end marker one less than the extra one: 0xFFFFFFFC
RCT12_RESEARCHED_ITEMS_END_Shifted == U32(65535, 65532)

\* 0xFFFFFFFF, 0xFFFFFFFE, 0xFFFFFFFD
RCT12_RESEARCHED_ITEMS_SEPARATOR == U32(65535, 65535)
RCT12_RESEARCHED_ITEMS_END == U32(65535, 65534)
RCT12_RESEARCHED_ITEMS_END_2 == U32(65535, 65533)

RCT12ResearchItem(entryIndex, baseRideType, type, flags, category) ==
    [entryIndex |-> entryIndex, baseRideType |-> baseRideType, type |-> type,
     flags |-> flags, category |-> category]

\* the union member rawValue read from the first four bytes
rawValue(item) ==
    U32(item.type + 256 * item.flags, item.entryIndex + 256 * item.baseRideType)

IsInventedEndMarker(item) == rawValue(item) = RCT12_RESEARCHED_ITEMS_SEPARATOR
IsUninventedEndMarker(item) == rawValue(item) = RCT12_RESEARCHED_ITEMS_END
IsRandomEndMarker(item) == rawValue(item) = RCT12_RESEARCHED_ITEMS_END_2

\* The state of the decoding of a research list before its first record.
DecodeStart(items) ==
    [items |-> items, pos |-> 1, invented |-> TRUE, inventedList |-> <<>>,
     uninventedList |-> <<>>, done |-> FALSE]

\* One turn of the decoder's loop over the records.  The separator ends the
\* invented items and the records after it are the uninvented ones; either
\* end marker ends the list; any other record is an item of the list that is
\* being read.  The loop also ends with the array.
DecodeStep(st) ==
    IF st.pos > Len(st.items) THEN [st EXCEPT !.done = TRUE]
    ELSE LET item == st.items[st.pos]
         IN  IF IsInventedEndMarker(item)
             THEN [st EXCEPT !.invented = FALSE, !.pos = st.pos + 1]
             ELSE IF IsUninventedEndMarker(item) \/ IsRandomEndMarker(item)
             THEN [st EXCEPT !.done = TRUE]
             ELSE IF st.invented
             THEN [st EXCEPT !.inventedList = Append(st.inventedList, item),
                             !.pos = st.pos + 1]
             ELSE [st EXCEPT !.uninventedList = Append(st.uninventedList, item),
                             !.pos = st.pos + 1]

(***************************************************************************)
(* Entities: RCT12SpriteBase records in one table, chained into lists by   *)
(* their next and previous indices.  sprite_lists_head and                 *)
(* sprite_lists_count are arrays of uint16_t, one slot per list, and       *)
(* linked_list_type_offset is the byte offset of the entity's slot.        *)
(***************************************************************************)
\* the size of the table
MaxEntities == 3

EntityIndex == 0..(MaxEntities - 1)

\* the index that is no entity: the largest uint16_t
SPRITE_INDEX_NULL == 65535

\* the peep slot at the offset of the slot before it
RCT12EntityLinkListOffset_Peep_OneSlot == 1 * 2

\* enum class RCT12EntityLinkListOffset, with sizeof(uint16_t) = 2
RCT12EntityLinkListOffset_Free == 0
RCT12EntityLinkListOffset_TrainHead == 1 * 2
RCT12EntityLinkListOffset_Peep == 2 * 2
RCT12EntityLinkListOffset_Misc == 3 * 2
RCT12EntityLinkListOffset_Litter == 4 * 2
RCT12EntityLinkListOffset_Vehicle == 5 * 2

RCT12EntityLinkListOffset ==
    { RCT12EntityLinkListOffset_Free, RCT12EntityLinkListOffset_TrainHead,
      RCT12EntityLinkListOffset_Peep, RCT12EntityLinkListOffset_Misc,
      RCT12EntityLinkListOffset_Litter, RCT12EntityLinkListOffset_Vehicle }

\* enum class RCT12SpriteIdentifier
RCT12SpriteIdentifier_Vehicle == 0
RCT12SpriteIdentifier_Peep == 1
RCT12SpriteIdentifier_Misc == 2
RCT12SpriteIdentifier_Litter == 3
RCT12SpriteIdentifier_Null == 255

\* the fields of RCT12SpriteBase that chain the entity and name its kind
RCT12SpriteBase(identifier, next, previous, offset) ==
    [sprite_identifier |-> identifier, next |-> next, previous |-> previous,
     linked_list_type_offset |-> offset]

\* the kind of the entities that a list holds
IdentifierOfList(list) ==
    CASE list = RCT12EntityLinkListOffset_Free -> RCT12SpriteIdentifier_Null
      [] list = RCT12EntityLinkListOffset_TrainHead -> RCT12SpriteIdentifier_Vehicle
      [] list = RCT12EntityLinkListOffset_Vehicle -> RCT12SpriteIdentifier_Vehicle
      [] list = RCT12EntityLinkListOffset_Peep -> RCT12SpriteIdentifier_Peep
      [] list = RCT12EntityLinkListOffset_Misc -> RCT12SpriteIdentifier_Misc
      [] list = RCT12EntityLinkListOffset_Litter -> RCT12SpriteIdentifier_Litter

\* A table: the entities, and the head and the count of each list.
\* The table after a reset: every entity on the free list, in index order.
ResetSpriteList ==
    [entities |->
        [i \in EntityIndex |->
            RCT12SpriteBase(RCT12SpriteIdentifier_Null,
                IF i = MaxEntities - 1 THEN SPRITE_INDEX_NULL ELSE i + 1,
                IF i = 0 THEN SPRITE_INDEX_NULL ELSE i - 1,
                RCT12EntityLinkListOffset_Free)],
     head |-> [l \in RCT12EntityLinkListOffset |->
                 IF l = RCT12EntityLinkListOffset_Free THEN 0 ELSE SPRITE_INDEX_NULL],
     count |-> [l \in RCT12EntityLinkListOffset |->
                 IF l = RCT12EntityLinkListOffset_Free THEN MaxEntities ELSE 0]]

\* entity i taken out of the list it is on
Unlink(t, i) ==
    LET e == t.entities[i]
        l == e.linked_list_type_offset
    IN  [entities |->
            [j \in EntityIndex |->
                IF j = e.previous THEN [t.entities[j] EXCEPT !.next = e.next]
                ELSE IF j = e.next THEN [t.entities[j] EXCEPT !.previous = e.previous]
                ELSE t.entities[j]],
         head |-> IF e.previous = SPRITE_INDEX_NULL
                  THEN [t.head EXCEPT ![l] = e.next] ELSE t.head,
         count |-> [t.count EXCEPT ![l] = t.count[l] - 1]]

\* entity i put at the head of list l, and l written to its offset field
LinkAtHead(t, i, l) ==
    LET old == t.head[l]
    IN  [entities |->
            [j \in EntityIndex |->
                IF j = i
                THEN [t.entities[j] EXCEPT !.next = old, !.previous = SPRITE_INDEX_NULL,
                                           !.linked_list_type_offset = l]
                ELSE IF j = old THEN [t.entities[j] EXCEPT !.previous = i]
                ELSE t.entities[j]],
         head |-> [t.head EXCEPT ![l] = i],
         count |-> [t.count EXCEPT ![l] = t.count[l] + 1]]

\* an entity changes list: out of the one, into the other, never in both
MoveSpriteToList(t, i, l) ==
    IF t.entities[i].linked_list_type_offset = l THEN t
    ELSE LinkAtHead(Unlink(t, i), i, l)

\* the kind of entity i set
WithIdentifier(t, i, identifier) ==
    [t EXCEPT !.entities[i].sprite_identifier = identifier]

(***************************************************************************)
(* Strings.  A modern string is a run of units: a character of the legacy  *)
(* code page, a formatting placeholder, or a character outside the code    *)
(* page.  In the legacy encoding the first two are one byte each (a        *)
(* placeholder is its control code, in the format-argument or the colour   *)
(* range) and the third is three bytes: 0xFF and the two bytes of its code *)
(* point.                                                                  *)
(***************************************************************************)
RCT2_STRING_FORMAT_ARG_START == 123
RCT2_STRING_FORMAT_ARG_END == 141
RCT2_STRING_FORMAT_COLOUR_START == 142
RCT2_STRING_FORMAT_COLOUR_END == 156

\* the longest string, in units
MaxUnits == 4

\* the byte that starts a three-byte character
MultiByteLead == 255

\* the control codes of the legacy encoding
IsFormatCode(b) ==
    \/ b \in RCT2_STRING_FORMAT_ARG_START..RCT2_STRING_FORMAT_ARG_END
    \/ b \in RCT2_STRING_FORMAT_COLOUR_START..RCT2_STRING_FORMAT_COLOUR_END

\* the bytes of one unit in the legacy encoding
EncodeUnit(u) ==
    CASE u.kind = "char" -> <<u.code>>
      [] u.kind = "format" -> <<u.code>>
      [] u.kind = "wide" -> <<MultiByteLead, u.code \div 256, u.code % 256>>

\* the bytes of a string in the legacy encoding
RECURSIVE EncodeRCT2(_)
EncodeRCT2(s) == IF s = <<>> THEN <<>> ELSE EncodeUnit(Head(s)) \o EncodeRCT2(Tail(s))

\* The scan of the truncation: i is the index of the first byte of a unit.
\* A unit that does not end within max bytes ends the string before it.
RECURSIVE KeepWholeUnits(_, _, _)
KeepWholeUnits(b, max, i) ==
    IF i > Len(b) THEN b
    ELSE LET n == IF b[i] = MultiByteLead THEN 3 ELSE 1
         IN  IF i + n - 1 > max THEN SubSeq(b, 1, i - 1)
             ELSE KeepWholeUnits(b, max, i + n)

\* a truncation that cuts at the byte
TruncateRCT2_AtByte(b, max) == IF Len(b) <= max THEN b ELSE SubSeq(b, 1, max)

\* the encoded string cut to at most max bytes
TruncateRCT2(b, max) == IF Len(b) <= max THEN b ELSE KeepWholeUnits(b, max, 1)

GetTruncatedRCT2String(s, max) == TruncateRCT2(EncodeRCT2(s), max)

\* the placeholders become control codes, then the string is cut as above
ConvertFormattedStringToRCT2(buf, max) == TruncateRCT2(EncodeRCT2(buf), max)

(***************************************************************************)
(* The sequence byte of a track element (RCT12TrackElement::sequence).     *)
(***************************************************************************)
\* the station index mask widened to the whole upper nibble
RCT12_TRACK_ELEMENT_SEQUENCE_STATION_INDEX_MASK_Nibble == 2^7 + 2^6 + 2^5 + 2^4

\* 0b01110000, 0b00001111, 0b11110000
RCT12_TRACK_ELEMENT_SEQUENCE_STATION_INDEX_MASK == 2^6 + 2^5 + 2^4
RCT12_TRACK_ELEMENT_SEQUENCE_SEQUENCE_MASK == 2^3 + 2^2 + 2^1 + 2^0
RCT12_TRACK_ELEMENT_SEQUENCE_TAKING_PHOTO_MASK == 2^7 + 2^6 + 2^5 + 2^4

\* RCT12TrackElement::GetSequenceIndex
GetSequenceIndex(seq) == BitAnd(seq, RCT12_TRACK_ELEMENT_SEQUENCE_SEQUENCE_MASK)

\* RCT12TrackElement::GetStationIndex
GetStationIndex(seq) ==
    BitAnd(seq, RCT12_TRACK_ELEMENT_SEQUENCE_STATION_INDEX_MASK) \div 2^4

\* whether the game counts the byte as a photo being taken
IsTakingPhoto(seq) == BitAnd(seq, RCT12_TRACK_ELEMENT_SEQUENCE_TAKING_PHOTO_MASK) # 0

(***************************************************************************)
(* RideEntranceExitRemoveAction: the removal of the entrance or the exit   *)
(* of a ride's station.  The game state it reads and writes is the rides,  *)
(* by ride index, and the stack of tile elements at the action's location. *)
(* A pointer to a tile element is its place in the stack, counted from 1.  *)
(***************************************************************************)
\* the stations of a ride are 0 .. MaxStations - 1
MaxStations == 2

\* the most tile elements on one tile
MaxStack == 2

StationIndex == 0..(MaxStations - 1)

\* the pointer to no tile element
NullElement == 0

\* GameActions::Result(): success, with the position still to be set
ResultOk == [Error |-> "Ok", ErrorStrings |-> <<"STR_NONE", "STR_NONE">>]

\* GameActions::Result(status, string, string)
Result(status, first, second) == [Error |-> status, ErrorStrings |-> <<first, second>>]

get_ride(rs, rideIndex) == IF rideIndex \in DOMAIN rs THEN rs[rideIndex] ELSE nullptr

\* a location is valid when it is on the map
LocationValid(loc) == loc.x >= 0 /\ loc.y >= 0

\* the loop body with the ride index not compared
Passes_AnyRide(element, rideIndex, stationNum, entranceType, isGhost) ==
    /\ ~(isGhost /\ element.ghost = FALSE)
    /\ element.stationIndex = stationNum
    /\ element.entranceType = entranceType

\* the loop body with a ghost filter that wants the element to be as the flag
Passes_GhostAsFlag(element, rideIndex, stationNum, entranceType, isGhost) ==
    /\ element.ghost = isGhost
    /\ element.rideIndex = rideIndex
    /\ element.stationIndex = stationNum
    /\ element.entranceType = entranceType

\* the body of the loop of FindEntranceElement: an element gets past the
\* four tests that `continue`
Passes(element, rideIndex, stationNum, entranceType, isGhost) ==
    /\ ~(isGhost /\ element.ghost = FALSE)
    /\ ~(element.rideIndex # rideIndex)
    /\ ~(element.stationIndex # stationNum)
    /\ ~(element.entranceType # entranceType)

\* the loop from place i of the stack on; TileElementsView<EntranceElement>
\* steps over the elements that are no entrance elements
RECURSIVE FindFrom(_, _, _, _, _, _)
FindFrom(elements, i, rideIndex, stationNum, entranceType, isGhost) ==
    IF i > Len(elements) THEN NullElement
    ELSE IF elements[i].type = "Entrance"
            /\ Passes(elements[i], rideIndex, stationNum, entranceType, isGhost)
         THEN i
         ELSE FindFrom(elements, i + 1, rideIndex, stationNum, entranceType, isGhost)

FindEntranceElement(elements, rideIndex, stationNum, entranceType, flags) ==
    LET isGhost == "GAME_COMMAND_FLAG_GHOST" \in flags
    IN  FindFrom(elements, 1, rideIndex, stationNum, entranceType, isGhost)

\* _isExit ? ENTRANCE_TYPE_RIDE_EXIT : ENTRANCE_TYPE_RIDE_ENTRANCE
EntranceTypeOf(a) ==
    IF a.isExit THEN "ENTRANCE_TYPE_RIDE_EXIT" ELSE "ENTRANCE_TYPE_RIDE_ENTRANCE"

\* Query with the test of the lifecycle flag before the test of the status
Query_FlagBeforeStatus(rs, elements, a) ==
    LET ride == get_ride(rs, a.rideIndex)
    IN  IF ride = nullptr
        THEN Result("InvalidParameters", "STR_NONE", "STR_NONE")
        ELSE IF "RIDE_LIFECYCLE_INDESTRUCTIBLE_TRACK" \in ride.lifecycle_flags
        THEN Result("InvalidParameters", "STR_NOT_ALLOWED_TO_MODIFY_STATION", "STR_NONE")
        ELSE IF ride.status # "Closed" /\ ride.status # "Simulating"
        THEN Result("InvalidParameters", "STR_MUST_BE_CLOSED_FIRST", "STR_NONE")
        ELSE IF ~LocationValid(a.loc)
        THEN Result("InvalidParameters", "STR_LAND_NOT_OWNED_BY_PARK", "STR_NONE")
        ELSE IF FindEntranceElement(elements, a.rideIndex, a.stationNum,
                                    EntranceTypeOf(a), a.flags) = NullElement
        THEN Result("InvalidParameters", "STR_NONE", "STR_NONE")
        ELSE ResultOk

\* RideEntranceExitRemoveAction::Query
Query(rs, elements, a) ==
    LET ride == get_ride(rs, a.rideIndex)
    IN  IF ride = nullptr
        THEN Result("InvalidParameters", "STR_NONE", "STR_NONE")
        ELSE IF ride.status # "Closed" /\ ride.status # "Simulating"
        THEN Result("InvalidParameters", "STR_MUST_BE_CLOSED_FIRST", "STR_NONE")
        ELSE IF "RIDE_LIFECYCLE_INDESTRUCTIBLE_TRACK" \in ride.lifecycle_flags
        THEN Result("InvalidParameters", "STR_NOT_ALLOWED_TO_MODIFY_STATION", "STR_NONE")
        ELSE IF ~LocationValid(a.loc)
        THEN Result("InvalidParameters", "STR_LAND_NOT_OWNED_BY_PARK", "STR_NONE")
        ELSE IF FindEntranceElement(elements, a.rideIndex, a.stationNum,
                                    EntranceTypeOf(a), a.flags) = NullElement
        THEN Result("InvalidParameters", "STR_NONE", "STR_NONE")
        ELSE ResultOk

\* The three calls on the ride, each by the effect it is named for: the
\* vehicles leave the track, the riders leave the ride, the ride is no
\* longer tested.
ride_clear_for_construction(ride) == [ride EXCEPT !.vehicles = FALSE]
RemovePeeps(ride) == [ride EXCEPT !.num_riders = 0]
invalidate_test_results(ride) ==
    [ride EXCEPT !.lifecycle_flags = @ \ {"RIDE_LIFECYCLE_TESTED"}]

\* the three calls made for a ghost action as well
RideWideEffects_AlsoGhost(ride, isGhost) ==
    invalidate_test_results(RemovePeeps(ride_clear_for_construction(ride)))

\* if (!isGhost) { ... }
RideWideEffects(ride, isGhost) ==
    IF ~isGhost
    THEN invalidate_test_results(RemovePeeps(ride_clear_for_construction(ride)))
    ELSE ride

\* the calls that RideWideEffects makes
RideWideCalls(isGhost) ==
    IF ~isGhost
    THEN <<"ride_clear_for_construction", "RemovePeeps", "invalidate_test_results">>
    ELSE <<>>

ride_clear_exit_location(ride, stationNum) ==
    [ride EXCEPT !.exits[stationNum] = nullptr]

ride_clear_entrance_location(ride, stationNum) ==
    [ride EXCEPT !.entrances[stationNum] = nullptr]

\* the branch on _isExit the wrong way round
ClearStationLocation_Swapped(ride, stationNum, isExit) ==
    IF isExit THEN ride_clear_entrance_location(ride, stationNum)
    ELSE ride_clear_exit_location(ride, stationNum)

\* if (_isExit) ... else ...
ClearStationLocation(ride, stationNum, isExit) ==
    IF isExit THEN ride_clear_exit_location(ride, stationNum)
    ELSE ride_clear_entrance_location(ride, stationNum)

\* the stack without the element at place i
tile_element_remove(elements, i) ==
    SubSeq(elements, 1, i - 1) \o SubSeq(elements, i + 1, Len(elements))

\* RideEntranceExitRemoveAction::Execute: the rides and the stack after it,
\* the calls it made, the element it found, and its result.  Position.z is
\* what tile_element_height returns for the position; the land is not part of
\* the state here, and the result carries x and y.
Execute(rs, elements, a) ==
    LET ride == get_ride(rs, a.rideIndex)
    IN  IF ride = nullptr
        THEN [rides |-> rs, elements |-> elements, calls |-> <<>>,
              element |-> NullElement,
              result |-> Result("InvalidParameters", "STR_NONE", "STR_NONE")]
        ELSE
        LET isGhost == "GAME_COMMAND_FLAG_GHOST" \in a.flags
            rs1 == [rs EXCEPT ![a.rideIndex] = RideWideEffects(ride, isGhost)]
            calls1 == RideWideCalls(isGhost) \o <<"FindEntranceElement">>
            entranceElement ==
                FindEntranceElement(elements, a.rideIndex, a.stationNum,
                                    EntranceTypeOf(a), a.flags)
        IN  IF entranceElement = NullElement
            THEN [rides |-> rs1, elements |-> elements, calls |-> calls1,
                  element |-> NullElement,
                  result |-> Result("InvalidParameters", "STR_NONE", "STR_NONE")]
            ELSE
            [rides |-> [rs1 EXCEPT ![a.rideIndex] =
                           ClearStationLocation(rs1[a.rideIndex], a.stationNum, a.isExit)],
             elements |-> tile_element_remove(elements, entranceElement),
             calls |-> calls1 \o
                 <<"tile_element_height", "footpath_queue_chain_reset",
                   "maze_entrance_hedge_replacement", "footpath_remove_edges_at",
                   "tile_element_remove",
                   IF a.isExit THEN "ride_clear_exit_location"
                   ELSE "ride_clear_entrance_location",
                   "footpath_update_queue_chains", "map_invalidate_tile_full">>,
             element |-> entranceElement,
             result |-> [Error |-> "Ok", ErrorStrings |-> <<"STR_NONE", "STR_NONE">>,
                         Position |-> [x |-> a.loc.x + 16, y |-> a.loc.y + 16]]]

(***************************************************************************)
(* State.  Each part of the layer is a set of pure operations on a value   *)
(* read from a file; a specification draws that value in its initial       *)
(* state and its actions apply the operations to it.  The variables of the *)
(* other parts stay idle.                                                  *)
(***************************************************************************)
VARIABLES
    coords,         \* an RCT12xy8
    xy8Result,      \* the last operation on coords and what it returned
    rct12type,      \* an RCT12TileElementType value, as its uint8_t
    converted,      \* what ToOpenRCT2TileElementType did with rct12type
    buffer,         \* the 8 bytes of a tile element
    tileResult,     \* the last operation on the tile element and its result
    legacyId,       \* a legacy object entry index or ride id, and which
    idResult,       \* its modern value and the legacy value exported from it
    moneyIn,        \* a company value read from a file or from the game
    moneyResult,    \* its conversion, and the conversion back
    researchItem,   \* one RCT12ResearchItem
    itemResult,     \* what the three marker checks say of it
    research_items, \* the research list of a file
    pos,            \* the index of the next record of the list to decode
    invented,       \* whether the records decoded now are invented items
    inventedList,   \* the invented items decoded so far
    uninventedList, \* the uninvented items decoded so far
    decodeDone,     \* whether the decoding of the list has ended
    entities,       \* the entity table: an RCT12SpriteBase per index
    sprite_lists_head,  \* the index of the first entity of each list
    sprite_lists_count, \* the number of entities of each list
    src,            \* a string in the legacy encoding, as its bytes
    maxLength,      \* the length it is truncated to
    stringResult,   \* the truncated string
    sequence,       \* the sequence byte of a track element
    sequenceResult, \* the sub-fields read from it
    rides,          \* the rides of the park, by ride index
    tileElements,   \* the stack of tile elements at the action's location
    gameAction,     \* the parameters of a RideEntranceExitRemoveAction
    actionResult,   \* the last call of Query or Execute and its result
    callLog         \* the calls made by the last Execute, in order

xy8Vars == <<coords, xy8Result>>
typeVars == <<rct12type, converted>>
tileVars == <<buffer, tileResult>>
indexVars == <<legacyId, idResult>>
moneyVars == <<moneyIn, moneyResult>>
itemVars == <<researchItem, itemResult>>
listVars == <<research_items, pos, invented, inventedList, uninventedList, decodeDone>>
entityVars == <<entities, sprite_lists_head, sprite_lists_count>>
stringVars == <<src, maxLength, stringResult>>
trackVars == <<sequence, sequenceResult>>
actionVars == <<rides, tileElements, gameAction, actionResult, callLog>>

vars == <<xy8Vars, typeVars, tileVars, indexVars, moneyVars, itemVars, listVars,
          entityVars, stringVars, trackVars, actionVars>>

unset == [op |-> "none"]

IdleXY8 == coords = [x |-> 0, y |-> 0] /\ xy8Result = unset
IdleType == rct12type = 0 /\ converted = unset
IdleTile == buffer = <<0, 0, 0, 0, 0, 0, 0, 0>> /\ tileResult = unset
IdleIndex == legacyId = [kind |-> "entry", value |-> 0] /\ idResult = unset
IdleMoney == moneyIn = [from |-> "legacy", value |-> 0] /\ moneyResult = unset
IdleItem == researchItem = RCT12ResearchItem(0, 0, 0, 0, 0) /\ itemResult = unset
IdleList ==
    /\ research_items = <<>> /\ pos = 1 /\ invented = TRUE
    /\ inventedList = <<>> /\ uninventedList = <<>> /\ decodeDone = TRUE
IdleEntity == entities = <<>> /\ sprite_lists_head = <<>> /\ sprite_lists_count = <<>>
IdleString == src = <<>> /\ maxLength = 0 /\ stringResult = unset
IdleTrack == sequence = 0 /\ sequenceResult = unset
IdleAction ==
    /\ rides = <<>> /\ tileElements = <<>> /\ gameAction = unset
    /\ actionResult = unset /\ callLog = <<>>

(***************************************************************************)
(* RCT12xy8                                                                *)
(***************************************************************************)
InitXY8 ==
    /\ coords \in RCT12xy8
    /\ xy8Result = unset
    /\ IdleType /\ IdleTile /\ IdleIndex /\ IdleMoney /\ IdleItem /\ IdleList
    /\ IdleEntity /\ IdleString /\ IdleTrack /\ IdleAction

FrameXY8 ==
    UNCHANGED <<typeVars, tileVars, indexVars, moneyVars, itemVars, listVars,
                entityVars, stringVars, trackVars, actionVars>>

CallIsNull ==
    /\ xy8Result' = [op |-> "IsNull", on |-> coords, value |-> IsNull(coords)]
    /\ UNCHANGED coords
    /\ FrameXY8

CallSetNull ==
    /\ xy8Result.op # "SetNull"
    /\ coords' = SetNull(coords)
    /\ xy8Result' = [op |-> "SetNull", on |-> coords, value |-> FALSE]
    /\ FrameXY8

NextXY8 == CallIsNull \/ CallSetNull

SpecXY8 == InitXY8 /\ [][NextXY8]_vars

(***************************************************************************)
(* ToOpenRCT2TileElementType                                               *)
(***************************************************************************)
InitType ==
    /\ rct12type \in Byte
    /\ converted = unset
    /\ IdleXY8 /\ IdleTile /\ IdleIndex /\ IdleMoney /\ IdleItem /\ IdleList
    /\ IdleEntity /\ IdleString /\ IdleTrack /\ IdleAction

FrameType ==
    UNCHANGED <<xy8Vars, tileVars, indexVars, moneyVars, itemVars, listVars,
                entityVars, stringVars, trackVars, actionVars>>

ConvertType ==
    /\ converted = unset
    /\ converted' = [op |-> "ToOpenRCT2TileElementType", on |-> rct12type,
                     result |-> ToOpenRCT2TileElementType(rct12type)]
    /\ UNCHANGED rct12type
    /\ FrameType

NextType == ConvertType

SpecType == InitType /\ [][NextType]_vars

(***************************************************************************)
(* Tile elements                                                           *)
(***************************************************************************)
\* every tag, with the other bits of the type byte all clear or all set
TypeBytes == { 4 * tag + other : tag \in 0..15, other \in {0, 195} }

\* every value of the three upper flag bits, and the low five bits set
FlagBytes == { 32 * k : k \in 0..7 } \cup {31, 255}

HeightBytes == { <<14, 18>>, <<255, 255>> }

TileBuffers ==
    { <<t, f, h[1], h[2], p[1], p[2], p[3], p[4]>> :
        t \in TypeBytes, f \in FlagBytes, h \in HeightBytes,
        p \in [1..4 -> EdgeBytes] }

InitTile ==
    /\ buffer \in TileBuffers
    /\ tileResult = unset
    /\ IdleXY8 /\ IdleType /\ IdleIndex /\ IdleMoney /\ IdleItem /\ IdleList
    /\ IdleEntity /\ IdleString /\ IdleTrack /\ IdleAction

FrameTile ==
    UNCHANGED <<xy8Vars, typeVars, indexVars, moneyVars, itemVars, listVars,
                entityVars, stringVars, trackVars, actionVars>>

\* all eight typed accessors called on the element over the buffer
TypedAccess ==
    /\ tileResult.op # "access"
    /\ tileResult' =
          [op |-> "access",
           views |-> [a \in Accessors |-> CallAccessor(a, RCT12TileElement(buffer))]]
    /\ UNCHANGED buffer
    /\ FrameTile

Decode ==
    /\ tileResult.op # "decode"
    /\ tileResult' = [op |-> "decode", decoded |-> DecodeTileElement(buffer)]
    /\ UNCHANGED buffer
    /\ FrameTile

\* the decoded element written back
Encode ==
    /\ tileResult.op = "decode"
    /\ tileResult.decoded.ok
    /\ tileResult' = [op |-> "encode", decoded |-> tileResult.decoded,
                      bytes |-> TileElementBytes(tileResult.decoded.element)]
    /\ UNCHANGED buffer
    /\ FrameTile

\* the flag accessors of the track and the path view of the element
ReadFlags ==
    /\ tileResult.op # "flags"
    /\ LET e == RCT12TileElement(buffer)
       IN  tileResult' =
              [op |-> "flags",
               BlockBrakeClosed |-> BlockBrakeClosed(e),
               IsIndestructible |-> IsIndestructible(e),
               IsBroken |-> IsBroken(e),
               IsBlockedByVehicle |-> IsBlockedByVehicle(e)]
    /\ UNCHANGED buffer
    /\ FrameTile

NextTile == TypedAccess \/ Decode \/ Encode \/ ReadFlags

SpecTile == InitTile /\ [][NextTile]_vars

(***************************************************************************)
(* Object entry indices and ride ids                                       *)
(***************************************************************************)
InitIndex ==
    /\ legacyId \in [kind : {"entry", "ride"}, value : Byte]
    /\ idResult = unset
    /\ IdleXY8 /\ IdleType /\ IdleTile /\ IdleMoney /\ IdleItem /\ IdleList
    /\ IdleEntity /\ IdleString /\ IdleTrack /\ IdleAction

FrameIndex ==
    UNCHANGED <<xy8Vars, typeVars, tileVars, moneyVars, itemVars, listVars,
                entityVars, stringVars, trackVars, actionVars>>

\* the legacy identifier converted at load
ImportId ==
    /\ idResult = unset
    /\ idResult' =
          [op |-> "import",
           modern |-> IF legacyId.kind = "entry"
                      THEN RCTEntryIndexToOpenRCT2EntryIndex(legacyId.value)
                      ELSE RCT12RideIdToOpenRCT2RideId(legacyId.value)]
    /\ UNCHANGED legacyId
    /\ FrameIndex

\* the modern identifier converted back at save
ExportId ==
    /\ idResult.op = "import"
    /\ idResult' =
          [op |-> "export", modern |-> idResult.modern,
           legacy |-> IF legacyId.kind = "entry"
                      THEN OpenRCT2EntryIndexToRCTEntryIndex(idResult.modern)
                      ELSE OpenRCT2RideIdToRCT12RideId(idResult.modern)]
    /\ UNCHANGED legacyId
    /\ FrameIndex

NextIndex == ImportId \/ ExportId

SpecIndex == InitIndex /\ [][NextIndex]_vars

(***************************************************************************)
(* Completed company value                                                 *)
(***************************************************************************)
InitMoney ==
    /\ moneyIn \in [from : {"legacy"}, value : money32]
                     \cup [from : {"modern"}, value : money64]
    /\ moneyResult = unset
    /\ IdleXY8 /\ IdleType /\ IdleTile /\ IdleIndex /\ IdleItem /\ IdleList
    /\ IdleEntity /\ IdleString /\ IdleTrack /\ IdleAction

FrameMoney ==
    UNCHANGED <<xy8Vars, typeVars, tileVars, indexVars, itemVars, listVars,
                entityVars, stringVars, trackVars, actionVars>>

\* a legacy value converted at load
ImportCompanyValue ==
    /\ moneyIn.from = "legacy"
    /\ moneyResult = unset
    /\ moneyResult' =
          [op |-> "import",
           modern |-> RCT12CompletedCompanyValueToOpenRCT2(moneyIn.value)]
    /\ UNCHANGED moneyIn
    /\ FrameMoney

\* the value converted at load converted back at save
ExportImportedValue ==
    /\ moneyResult.op = "import"
    /\ moneyResult' =
          [op |-> "roundtrip", modern |-> moneyResult.modern,
           legacy |-> OpenRCT2CompletedCompanyValueToRCT12(moneyResult.modern)]
    /\ UNCHANGED moneyIn
    /\ FrameMoney

\* a value of the game converted at save
ExportCompanyValue ==
    /\ moneyIn.from = "modern"
    /\ moneyResult = unset
    /\ moneyResult' =
          [op |-> "export", modern |-> moneyIn.value,
           legacy |-> OpenRCT2CompletedCompanyValueToRCT12(moneyIn.value)]
    /\ UNCHANGED moneyIn
    /\ FrameMoney

NextMoney == ImportCompanyValue \/ ExportImportedValue \/ ExportCompanyValue

SpecMoney == InitMoney /\ [][NextMoney]_vars

(***************************************************************************)
(* One research item                                                       *)
(***************************************************************************)
\* bytes at and next to the values the markers are made of
MarkerBytes == {0, 252, 253, 254, 255}
OtherBytes == {0, 1, 255}

ItemSamples ==
    { RCT12ResearchItem(e, b, t, f, c) :
        e \in MarkerBytes, b \in OtherBytes, t \in OtherBytes, f \in OtherBytes,
        c \in OtherBytes }

InitItem ==
    /\ researchItem \in ItemSamples
    /\ itemResult = unset
    /\ IdleXY8 /\ IdleType /\ IdleTile /\ IdleIndex /\ IdleMoney /\ IdleList
    /\ IdleEntity /\ IdleString /\ IdleTrack /\ IdleAction

FrameItem ==
    UNCHANGED <<xy8Vars, typeVars, tileVars, indexVars, moneyVars, listVars,
                entityVars, stringVars, trackVars, actionVars>>

\* the three marker checks on the item, and the decoder's turn on it
CheckMarkers ==
    /\ itemResult = unset
    /\ itemResult' =
          [op |-> "markers",
           invented |-> IsInventedEndMarker(researchItem),
           uninvented |-> IsUninventedEndMarker(researchItem),
           random |-> IsRandomEndMarker(researchItem),
           entries |-> LET st == DecodeStep(DecodeStart(<<researchItem>>))
                       IN  st.inventedList \o st.uninventedList]
    /\ UNCHANGED researchItem
    /\ FrameItem

NextItem == CheckMarkers

SpecItem == InitItem /\ [][NextItem]_vars

(***************************************************************************)
(* The research list                                                       *)
(***************************************************************************)
\* the longest research list
MaxItems == 4

\* two items, the three markers, and an item one bit away from the separator
ListItems ==
    { RCT12ResearchItem(3, 0, 0, 0, 5), RCT12ResearchItem(7, 1, 1, 0, 2),
      RCT12ResearchItem(255, 255, 255, 255, 0), RCT12ResearchItem(254, 255, 255, 255, 0),
      RCT12ResearchItem(253, 255, 255, 255, 0), RCT12ResearchItem(255, 255, 255, 127, 0) }

InitList ==
    /\ research_items \in UNION { [1..n -> ListItems] : n \in 0..MaxItems }
    /\ pos = 1 /\ invented = TRUE
    /\ inventedList = <<>> /\ uninventedList = <<>>
    /\ decodeDone = FALSE
    /\ IdleXY8 /\ IdleType /\ IdleTile /\ IdleIndex /\ IdleMoney /\ IdleItem
    /\ IdleEntity /\ IdleString /\ IdleTrack /\ IdleAction

FrameList ==
    UNCHANGED <<xy8Vars, typeVars, tileVars, indexVars, moneyVars, itemVars,
                entityVars, stringVars, trackVars, actionVars>>

\* the decoder's state, from the variables
DecodeState ==
    [items |-> research_items, pos |-> pos, invented |-> invented,
     inventedList |-> inventedList, uninventedList |-> uninventedList,
     done |-> decodeDone]

\* one turn of the decoder's loop
DecodeRecord ==
    /\ ~decodeDone
    /\ LET st == DecodeStep(DecodeState)
       IN  /\ pos' = st.pos
           /\ invented' = st.invented
           /\ inventedList' = st.inventedList
           /\ uninventedList' = st.uninventedList
           /\ decodeDone' = st.done
    /\ UNCHANGED research_items
    /\ FrameList

NextList == DecodeRecord

SpecList == InitList /\ [][NextList]_vars

(***************************************************************************)
(* The entity table                                                        *)
(***************************************************************************)
InitEntity ==
    /\ entities = ResetSpriteList.entities
    /\ sprite_lists_head = ResetSpriteList.head
    /\ sprite_lists_count = ResetSpriteList.count
    /\ IdleXY8 /\ IdleType /\ IdleTile /\ IdleIndex /\ IdleMoney /\ IdleItem /\ IdleList
    /\ IdleString /\ IdleTrack /\ IdleAction

FrameEntity ==
    UNCHANGED <<xy8Vars, typeVars, tileVars, indexVars, moneyVars, itemVars, listVars,
                stringVars, trackVars, actionVars>>

\* the table, from the variables
EntityTable ==
    [entities |-> entities, head |-> sprite_lists_head, count |-> sprite_lists_count]

SetEntityTable(t) ==
    /\ entities' = t.entities
    /\ sprite_lists_head' = t.head
    /\ sprite_lists_count' = t.count

\* a new entity: the head of the free list becomes an entity of list l
CreateEntity ==
    \E l \in RCT12EntityLinkListOffset \ {RCT12EntityLinkListOffset_Free} :
        /\ sprite_lists_head[RCT12EntityLinkListOffset_Free] # SPRITE_INDEX_NULL
        /\ LET i == sprite_lists_head[RCT12EntityLinkListOffset_Free]
           IN  SetEntityTable(
                   WithIdentifier(MoveSpriteToList(EntityTable, i, l), i,
                                  IdentifierOfList(l)))
        /\ FrameEntity

\* an entity removed: it goes back to the free list as a Null entity
RemoveEntity ==
    \E i \in EntityIndex :
        /\ entities[i].linked_list_type_offset # RCT12EntityLinkListOffset_Free
        /\ SetEntityTable(
               WithIdentifier(
                   MoveSpriteToList(EntityTable, i, RCT12EntityLinkListOffset_Free),
                   i, RCT12SpriteIdentifier_Null))
        /\ FrameEntity

\* a vehicle becomes the head of a train, or stops being one
MoveVehicle ==
    \E i \in EntityIndex :
        \E l \in {RCT12EntityLinkListOffset_TrainHead, RCT12EntityLinkListOffset_Vehicle} :
            /\ entities[i].sprite_identifier = RCT12SpriteIdentifier_Vehicle
            /\ entities[i].linked_list_type_offset # l
            /\ SetEntityTable(MoveSpriteToList(EntityTable, i, l))
            /\ FrameEntity

NextEntity == CreateEntity \/ RemoveEntity \/ MoveVehicle

SpecEntity == InitEntity /\ [][NextEntity]_vars

(***************************************************************************)
(* String truncation                                                       *)
(***************************************************************************)
\* a letter, the first format-argument code, the last colour code, and two
\* characters outside the code page, one with 0xFF in its code point
StringUnits ==
    { [kind |-> "char", code |-> 65],
      [kind |-> "wide", code |-> 322],
      [kind |-> "wide", code |-> 65313] }
      \cup { [kind |-> "format", code |-> c] :
                c \in { b \in {RCT2_STRING_FORMAT_ARG_START, RCT2_STRING_FORMAT_COLOUR_END} :
                           IsFormatCode(b) } }

InitString ==
    /\ src \in UNION { [1..n -> StringUnits] : n \in 0..MaxUnits }
    /\ maxLength \in 0..(3 * MaxUnits)
    /\ stringResult = unset
    /\ IdleXY8 /\ IdleType /\ IdleTile /\ IdleIndex /\ IdleMoney /\ IdleItem /\ IdleList
    /\ IdleEntity /\ IdleTrack /\ IdleAction

FrameString ==
    UNCHANGED <<xy8Vars, typeVars, tileVars, indexVars, moneyVars, itemVars, listVars,
                entityVars, trackVars, actionVars>>

\* a string without placeholders truncated
CallGetTruncatedRCT2String ==
    /\ stringResult = unset
    /\ \A i \in 1..Len(src) : src[i].kind # "format"
    /\ stringResult' = [op |-> "GetTruncatedRCT2String",
                        value |-> GetTruncatedRCT2String(src, maxLength)]
    /\ UNCHANGED <<src, maxLength>>
    /\ FrameString

\* a string with placeholders converted and truncated
CallConvertFormattedStringToRCT2 ==
    /\ stringResult = unset
    /\ stringResult' = [op |-> "ConvertFormattedStringToRCT2",
                        value |-> ConvertFormattedStringToRCT2(src, maxLength)]
    /\ UNCHANGED <<src, maxLength>>
    /\ FrameString

NextString == CallGetTruncatedRCT2String \/ CallConvertFormattedStringToRCT2

SpecString == InitString /\ [][NextString]_vars

(***************************************************************************)
(* The sequence byte                                                       *)
(***************************************************************************)
InitTrack ==
    /\ sequence \in Byte
    /\ sequenceResult = unset
    /\ IdleXY8 /\ IdleType /\ IdleTile /\ IdleIndex /\ IdleMoney /\ IdleItem /\ IdleList
    /\ IdleEntity /\ IdleString /\ IdleAction

FrameTrack ==
    UNCHANGED <<xy8Vars, typeVars, tileVars, indexVars, moneyVars, itemVars, listVars,
                entityVars, stringVars, actionVars>>

\* the sub-fields of the sequence byte read
ReadSequence ==
    /\ sequenceResult = unset
    /\ sequenceResult' =
          [op |-> "read",
           sequenceIndex |-> GetSequenceIndex(sequence),
           stationIndex |-> GetStationIndex(sequence),
           takingPhoto |-> IsTakingPhoto(sequence)]
    /\ UNCHANGED sequence
    /\ FrameTrack

NextTrack == ReadSequence

SpecTrack == InitTrack /\ [][NextTrack]_vars

(***************************************************************************)
(* RideEntranceExitRemoveAction                                            *)
(***************************************************************************)
RideStatus == {"Closed", "Open", "Testing", "Simulating"}

\* a location on the map, where the stored entrances and exits are
StoredLocation == [x |-> 64, y |-> 96]

\* a ride with vehicles and riders that has been tested, with the entrance
\* and the exit of every station stored
NewRide(status, indestructible) ==
    [status |-> status,
     lifecycle_flags |->
        {"RIDE_LIFECYCLE_TESTED"}
            \cup (IF indestructible THEN {"RIDE_LIFECYCLE_INDESTRUCTIBLE_TRACK"} ELSE {}),
     vehicles |-> TRUE, num_riders |-> 1,
     entrances |-> [s \in StationIndex |-> StoredLocation],
     exits |-> [s \in StationIndex |-> StoredLocation]]

\* ride 0 in every status, with and without the flag; with or without a
\* closed ride 1 next to it
RideTables ==
    { [r \in {0} |-> NewRide(status, indestructible)] :
        status \in RideStatus, indestructible \in BOOLEAN }
    \cup
    { [r \in {0, 1} |-> IF r = 0 THEN NewRide(status, indestructible)
                        ELSE NewRide("Closed", FALSE)] :
        status \in RideStatus, indestructible \in BOOLEAN }

EntranceElement(ghost, rideIndex, stationIndex, entranceType) ==
    [type |-> "Entrance", ghost |-> ghost, rideIndex |-> rideIndex,
     stationIndex |-> stationIndex, entranceType |-> entranceType]

\* entrances and exits of ride 0 at station 0, ghost and not; an entrance of
\* its last station, an entrance of ride 1, and a path
ElementSamples ==
    { EntranceElement(g, 0, 0, t) :
        g \in BOOLEAN, t \in {"ENTRANCE_TYPE_RIDE_ENTRANCE", "ENTRANCE_TYPE_RIDE_EXIT"} }
    \cup { EntranceElement(FALSE, 0, MaxStations - 1, "ENTRANCE_TYPE_RIDE_ENTRANCE"),
           EntranceElement(FALSE, 1, 0, "ENTRANCE_TYPE_RIDE_ENTRANCE"),
           [type |-> "Path", ghost |-> FALSE] }

\* the action's parameters: a location on the map or off it, a ride index,
\* a station, entrance or exit, and the ghost flag or no flag
ActionSamples ==
    [loc : {StoredLocation, [x |-> -32, y |-> 96]}, rideIndex : {0, 1},
     stationNum : StationIndex, isExit : BOOLEAN,
     flags : {{}, {"GAME_COMMAND_FLAG_GHOST"}}]

\* a location off the map has no tile elements
InitAction ==
    /\ rides \in RideTables
    /\ gameAction \in ActionSamples
    /\ tileElements \in UNION { [1..n -> ElementSamples] : n \in 0..MaxStack }
    /\ ~LocationValid(gameAction.loc) => tileElements = <<>>
    /\ actionResult = unset
    /\ callLog = <<>>
    /\ IdleXY8 /\ IdleType /\ IdleTile /\ IdleIndex /\ IdleMoney /\ IdleItem /\ IdleList
    /\ IdleEntity /\ IdleString /\ IdleTrack

FrameAction ==
    UNCHANGED <<xy8Vars, typeVars, tileVars, indexVars, moneyVars, itemVars, listVars,
                entityVars, stringVars, trackVars>>

\* the game state an action reads and writes
GameState == [rides |-> rides, tileElements |-> tileElements]

\* FindEntranceElement called with the parameters of the action
CallFindEntranceElement ==
    /\ actionResult.op # "FindEntranceElement"
    /\ actionResult' =
          [op |-> "FindEntranceElement", before |-> GameState,
           element |-> FindEntranceElement(tileElements, gameAction.rideIndex,
                           gameAction.stationNum, EntranceTypeOf(gameAction),
                           gameAction.flags)]
    /\ UNCHANGED <<rides, tileElements, gameAction, callLog>>
    /\ FrameAction

\* Query is const and calls nothing that writes
CallQuery ==
    /\ actionResult.op # "Query"
    /\ actionResult' = [op |-> "Query", before |-> GameState,
                        result |-> Query(rides, tileElements, gameAction)]
    /\ UNCHANGED <<rides, tileElements, gameAction, callLog>>
    /\ FrameAction

CallExecute ==
    /\ LET e == Execute(rides, tileElements, gameAction)
       IN  /\ rides' = e.rides
           /\ tileElements' = e.elements
           /\ callLog' = e.calls
           /\ actionResult' = [op |-> "Execute", before |-> GameState,
                               element |-> e.element, result |-> e.result]
    /\ UNCHANGED gameAction
    /\ FrameAction

NextAction == CallFindEntranceElement \/ CallQuery \/ CallExecute

SpecAction == InitAction /\ [][NextAction]_vars

(***************************************************************************)
(* Properties of RCT12xy8                                                  *)
(***************************************************************************)
\* C2: IsNull() is true exactly when both bytes are 0xFF (one byte of 0xFF is
\* not null), and after SetNull() both bytes are 0xFF and IsNull() is true.
C2_IsNullComparesBothBytes ==
    /\ xy8Result.op = "IsNull" =>
          (xy8Result.value <=> (xy8Result.on.x = 255 /\ xy8Result.on.y = 255))
    /\ xy8Result.op = "SetNull" =>
          (coords.x = 255 /\ coords.y = 255 /\ IsNull(coords))

\* IsNull() was asked of a pair with x = 0xFF only, and said no
C2_Witness ==
    /\ xy8Result.op = "IsNull"
    /\ xy8Result.on.x = 255 /\ xy8Result.on.y = 7
    /\ xy8Result.value = FALSE

(***************************************************************************)
(* Properties of the tile element                                          *)
(***************************************************************************)
\* the kind each typed accessor is for
KindOfAccessor ==
    [a \in Accessors |->
        CASE a = "AsSurface" -> 0
          [] a = "AsPath" -> 1
          [] a = "AsTrack" -> 2
          [] a = "AsSmallScenery" -> 3
          [] a = "AsEntrance" -> 4
          [] a = "AsWall" -> 5
          [] a = "AsLargeScenery" -> 6
          [] a = "AsBanner" -> 7]

\* C1: a typed accessor returns the element exactly when GetType() is its
\* kind; so at most one of the eight succeeds, and none does for Corrupt,
\* EightCarsCorrupt14 and EightCarsCorrupt15.
C1_AccessorPresentIffTypeMatches ==
    tileResult.op = "access" =>
        LET e == RCT12TileElement(buffer)
            present == { a \in Accessors : tileResult.views[a] # nullptr }
        IN  /\ \A a \in Accessors : a \in present <=> GetType(e) = KindOfAccessor[a]
            /\ \A a \in present : tileResult.views[a] = e
            /\ Cardinality(present) <= 1
            /\ GetType(e) \in {8, 14, 15} => present = {}

\* the accessors were called on a wall: AsWall gave it, AsEntrance did not
C1_Witness ==
    /\ tileResult.op = "access"
    /\ GetType(RCT12TileElement(buffer)) = 5
    /\ tileResult.views["AsWall"] # nullptr
    /\ tileResult.views["AsEntrance"] = nullptr

C9_OnlyEightTagsConvert ==
    /\ RCT12TileElementType_Surface = 0 /\ RCT12TileElementType_Path = 1
    /\ RCT12TileElementType_Track = 2 /\ RCT12TileElementType_SmallScenery = 3
    /\ RCT12TileElementType_Entrance = 4 /\ RCT12TileElementType_Wall = 5
    /\ RCT12TileElementType_LargeScenery = 6 /\ RCT12TileElementType_Banner = 7
    /\ converted.op # "none" =>
          /\ converted.on \in 0..7 =>
                converted.result.ok /\ converted.result.value = converted.on
          /\ converted.on \notin 0..7 => ~converted.result.ok

\* the conversion was asked for the Corrupt tag and threw
C9_Witness ==
    /\ converted.op # "none"
    /\ converted.on = 8
    /\ ~converted.result.ok

\* whether bit k of byte b is set
BitSet(b, k) == (b \div 2^k) % 2 = 1

\* C10 as stated: the block-brake-closed test and the blocked-by-vehicle test
\* read the same bit of the flag byte.
C10_SameBitAsStated ==
    tileResult.op = "flags" =>
        (tileResult.BlockBrakeClosed <=> tileResult.IsBlockedByVehicle)

\* C10, amended: block-brake-closed is bit 5, the bit of "broken";
\* blocked-by-vehicle is bit 6, the bit of "indestructible track piece";
\* the two are different bits.
C10_SharedFlagBits ==
    /\ RCT12_TILE_ELEMENT_FLAG_BLOCKED_BY_VEHICLE
          = RCT12_TILE_ELEMENT_FLAG_LARGE_SCENERY_ACCOUNTED
    /\ tileResult.op = "flags" =>
          /\ tileResult.BlockBrakeClosed <=> BitSet(buffer[2], 5)
          /\ tileResult.BlockBrakeClosed <=> tileResult.IsBroken
          /\ tileResult.IsBlockedByVehicle <=> BitSet(buffer[2], 6)
          /\ tileResult.IsBlockedByVehicle <=> tileResult.IsIndestructible

\* a flag byte with the block brake closed and no vehicle blocking
C10_Witness ==
    /\ tileResult.op = "flags"
    /\ tileResult.BlockBrakeClosed /\ tileResult.IsBroken
    /\ ~tileResult.IsBlockedByVehicle

(***************************************************************************)
(* Properties of the identifier conversions                                *)
(***************************************************************************)
\* the modern null value of the kind of identifier that was converted
ModernNull == IF legacyId.kind = "entry" THEN OBJECT_ENTRY_INDEX_NULL ELSE RIDE_ID_NULL

\* C3: the legacy null (255) of an object entry index and of a ride id
\* converts to the modern null and back to 255; every other legacy value
\* converts to a modern value that is not null, and back to itself.
C3_NullSentinelRoundTrip ==
    /\ idResult.op \in {"import", "export"} =>
          /\ legacyId.value = 255 => idResult.modern = ModernNull
          /\ legacyId.value # 255 => idResult.modern # ModernNull
    /\ idResult.op = "export" => idResult.legacy = legacyId.value

\* the null ride id went to the modern null and came back as 255
C3_Witness ==
    /\ idResult.op = "export"
    /\ legacyId = [kind |-> "ride", value |-> 255]
    /\ idResult.modern = RIDE_ID_NULL
    /\ idResult.legacy = 255

(***************************************************************************)
(* Properties of the company value conversions                             *)
(***************************************************************************)
\* the pattern of 0x80000001 at the width of money32: the top and the low bit
FailedObjectivePattern == 1 - 2^(MoneyBits - 1)

\* C4: the legacy failed-objective sentinel converts to the modern sentinel,
\* not to ten times its value, and the modern sentinel converts back to the
\* legacy one, not to a tenth of its value.
C4_FailedObjectiveSentinelMapsToSentinel ==
    /\ (moneyResult.op \in {"import", "roundtrip"} /\ moneyIn.value = FailedObjectivePattern) =>
          /\ moneyResult.modern = COMPANY_VALUE_ON_FAILED_OBJECTIVE
          /\ moneyResult.modern # 10 * moneyIn.value
    /\ (moneyResult.op \in {"export", "roundtrip"}
            /\ moneyResult.modern = COMPANY_VALUE_ON_FAILED_OBJECTIVE) =>
          /\ moneyResult.legacy = FailedObjectivePattern
          /\ moneyResult.legacy # ToMoney32(moneyResult.modern \div 10)

\* the legacy sentinel was converted and converted back
C4_Witness ==
    /\ moneyResult.op = "roundtrip"
    /\ moneyIn.value = FailedObjectivePattern
    /\ moneyResult.modern = COMPANY_VALUE_ON_FAILED_OBJECTIVE
    /\ moneyResult.legacy = FailedObjectivePattern

First4(item) == <<item.entryIndex, item.baseRideType, item.type, item.flags>>

\* the bytes of 0xFFFFFFFF, 0xFFFFFFFE and 0xFFFFFFFD in the file
SeparatorBytes == <<255, 255, 255, 255>>
EndBytes == <<254, 255, 255, 255>>
End2Bytes == <<253, 255, 255, 255>>

HasMarkerBytes(item) == First4(item) \in {SeparatorBytes, EndBytes, End2Bytes}
HasEndBytes(item) == First4(item) \in {EndBytes, End2Bytes}
NotSeparator(item) == First4(item) # SeparatorBytes

\* the index of the first record with the bytes of any marker, or Len + 1
FirstMarker(items) ==
    LET at == { i \in 1..Len(items) : HasMarkerBytes(items[i]) }
    IN  IF at = {} THEN Len(items) + 1 ELSE CHOOSE i \in at : \A j \in at : i <= j

\* the index of the first record with the bytes of an end marker, or Len + 1
FirstEnd(items) ==
    LET at == { i \in 1..Len(items) : HasEndBytes(items[i]) }
    IN  IF at = {} THEN Len(items) + 1 ELSE CHOOSE i \in at : \A j \in at : i <= j

\* the records between the separator and the end of the list
AfterSeparator(items) ==
    LET m == FirstMarker(items)
    IN  IF m <= Len(items) /\ First4(items[m]) = SeparatorBytes
        THEN SelectSeq(SubSeq(items, m + 1, FirstEnd(items) - 1), NotSeparator)
        ELSE <<>>

IsPrefix(a, b) == Len(a) <= Len(b) /\ SubSeq(b, 1, Len(a)) = a

C7_MarkersAreExclusiveAndTakePriority ==
    itemResult.op = "markers" =>
        /\ itemResult.invented <=> First4(researchItem) = SeparatorBytes
        /\ itemResult.uninvented <=> First4(researchItem) = EndBytes
        /\ itemResult.random <=> First4(researchItem) = End2Bytes
        /\ ~(itemResult.invented /\ itemResult.uninvented)
        /\ ~(itemResult.invented /\ itemResult.random)
        /\ ~(itemResult.uninvented /\ itemResult.random)
        /\ HasMarkerBytes(researchItem) => itemResult.entries = <<>>
        /\ ~HasMarkerBytes(researchItem) => itemResult.entries = <<researchItem>>

\* an item with entry index 253 and 0xFF in the next three bytes, in a
\* category other than 0, was checked: the extra end marker, and no entry
C7_Witness ==
    /\ itemResult.op = "markers"
    /\ First4(researchItem) = End2Bytes
    /\ researchItem.category = 1
    /\ itemResult.random /\ ~itemResult.invented /\ ~itemResult.uninvented
    /\ itemResult.entries = <<>>

(***************************************************************************)
(* Properties of the entity table                                          *)
(***************************************************************************)
\* the entities met by following next from entity i, for at most n steps
RECURSIVE Following(_, _)
Following(i, n) ==
    IF i = SPRITE_INDEX_NULL \/ n = 0 THEN {}
    ELSE {i} \cup Following(entities[i].next, n - 1)

\* the entities of list l: those met from its head
OnList(l) == Following(sprite_lists_head[l], MaxEntities)

FirstUnits(k) == EncodeRCT2(SubSeq(src, 1, k))

\* C12: the string returned by GetTruncatedRCT2String and by
\* ConvertFormattedStringToRCT2 has at most maxLength bytes and is the bytes
\* of the first k units of the input for some k: a character of three bytes
\* that the cut falls into is left out whole, and the units that fit before
\* it are kept.
C12_TruncationKeepsWholeUnits ==
    stringResult.op # "none" =>
        /\ Len(stringResult.value) <= maxLength
        /\ \E k \in 0..Len(src) :
              /\ stringResult.value = FirstUnits(k)
              /\ k < Len(src) => Len(FirstUnits(k + 1)) > maxLength

\* the cut at 5 bytes falls after the first byte of the second three-byte
\* character: the result is the control code and the first character, 4 bytes
C12_Witness ==
    /\ stringResult.op = "ConvertFormattedStringToRCT2"
    /\ Len(src) = 3
    /\ src[1].kind = "format" /\ src[2].kind = "wide" /\ src[3].kind = "wide"
    /\ maxLength = 5
    /\ stringResult.value = FirstUnits(2)
    /\ Len(stringResult.value) = 4

(***************************************************************************)
(* Properties of the sequence byte                                         *)
(***************************************************************************)
\* the bits of a mask
BitsOf(mask) == { k \in 0..7 : BitSet(mask, k) }

\* C13: the sequence-index mask is bits 0..3 and the taking-photo mask bits
\* 4..7: disjoint, and all 8 bits together; the station-index mask is bits
\* 4..6, inside the taking-photo mask and without bit 7.  So for every byte
\* the sequence index is its low nibble, in 0..15, the station index is bits
\* 4..6, in 0..7, and a photo is being taken exactly when one of the upper
\* four bits is set, whatever the low nibble.
C13_SequenceMasksPartitionTheByte ==
    /\ BitsOf(RCT12_TRACK_ELEMENT_SEQUENCE_SEQUENCE_MASK) = 0..3
    /\ BitsOf(RCT12_TRACK_ELEMENT_SEQUENCE_TAKING_PHOTO_MASK) = 4..7
    /\ BitsOf(RCT12_TRACK_ELEMENT_SEQUENCE_SEQUENCE_MASK)
          \cap BitsOf(RCT12_TRACK_ELEMENT_SEQUENCE_TAKING_PHOTO_MASK) = {}
    /\ BitsOf(RCT12_TRACK_ELEMENT_SEQUENCE_SEQUENCE_MASK)
          \cup BitsOf(RCT12_TRACK_ELEMENT_SEQUENCE_TAKING_PHOTO_MASK) = 0..7
    /\ BitsOf(RCT12_TRACK_ELEMENT_SEQUENCE_STATION_INDEX_MASK)
          \subseteq BitsOf(RCT12_TRACK_ELEMENT_SEQUENCE_TAKING_PHOTO_MASK)
    /\ 7 \notin BitsOf(RCT12_TRACK_ELEMENT_SEQUENCE_STATION_INDEX_MASK)
    /\ sequenceResult.op = "read" =>
          /\ sequenceResult.sequenceIndex \in 0..15
          /\ sequenceResult.sequenceIndex = sequence % 16
          /\ sequenceResult.stationIndex \in 0..7
          /\ sequenceResult.stationIndex = (sequence \div 16) % 8
          /\ sequenceResult.takingPhoto <=> (\E k \in 4..7 : BitSet(sequence, k))

\* the byte 0x8F was read: sequence index 15, station index 0 although an
\* upper bit is set, and counted as a photo being taken
C13_Witness ==
    /\ sequenceResult.op = "read"
    /\ sequence = 143
    /\ sequenceResult.sequenceIndex = 15
    /\ sequenceResult.stationIndex = 0
    /\ sequenceResult.takingPhoto

(***************************************************************************)
(* Properties of RideEntranceExitRemoveAction                              *)
(***************************************************************************)
\* the game state the last call started from
Before == actionResult.before

\* the ride of the action in that state, if there is one
BeforeRide ==
    IF gameAction.rideIndex \in DOMAIN Before.rides
    THEN Before.rides[gameAction.rideIndex] ELSE nullptr

IsGhostAction == "GAME_COMMAND_FLAG_GHOST" \in gameAction.flags

\* the element at place i of the stack is an entrance element of the ride,
\* the station and the kind the action asks for, and a ghost if the action
\* is a ghost action
Matches(stack, i) ==
    /\ stack[i].type = "Entrance"
    /\ stack[i].rideIndex = gameAction.rideIndex
    /\ stack[i].stationIndex = gameAction.stationNum
    /\ stack[i].entranceType = (IF gameAction.isExit THEN "ENTRANCE_TYPE_RIDE_EXIT"
                                ELSE "ENTRANCE_TYPE_RIDE_ENTRANCE")
    /\ IsGhostAction => stack[i].ghost

Candidates == { i \in 1..Len(Before.tileElements) : Matches(Before.tileElements, i) }

\* whether the last call took an element off the stack
Removed == Len(tileElements) < Len(Before.tileElements)

\* the place of a call in the log of the last Execute
PlaceOf(call) == CHOOSE i \in 1..Len(callLog) : callLog[i] = call

\* C14: Query succeeds exactly when (1) the ride exists, (2) its status is
\* Closed or Simulating, (3) it does not have the indestructible-track
\* flag, (4) the location is valid and (5) a matching element is there;
\* otherwise it returns InvalidParameters with the string of the first of
\* these that fails: STR_NONE, STR_MUST_BE_CLOSED_FIRST,
\* STR_NOT_ALLOWED_TO_MODIFY_STATION, STR_LAND_NOT_OWNED_BY_PARK, STR_NONE.
\* The game state after Query is the state before it.
C14_QueryChecksInOrder ==
    actionResult.op = "Query" =>
        LET r == actionResult.result
            c1 == BeforeRide # nullptr
            c2 == BeforeRide.status \in {"Closed", "Simulating"}
            c3 == "RIDE_LIFECYCLE_INDESTRUCTIBLE_TRACK" \notin BeforeRide.lifecycle_flags
            c4 == gameAction.loc.x >= 0 /\ gameAction.loc.y >= 0
            c5 == Candidates # {}
        IN  /\ r.Error = "Ok" <=> (c1 /\ c2 /\ c3 /\ c4 /\ c5)
            /\ r.Error # "Ok" => r.Error = "InvalidParameters"
            /\ ~c1 => r.ErrorStrings[1] = "STR_NONE"
            /\ (c1 /\ ~c2) => r.ErrorStrings[1] = "STR_MUST_BE_CLOSED_FIRST"
            /\ (c1 /\ c2 /\ ~c3) => r.ErrorStrings[1] = "STR_NOT_ALLOWED_TO_MODIFY_STATION"
            /\ (c1 /\ c2 /\ c3 /\ ~c4) => r.ErrorStrings[1] = "STR_LAND_NOT_OWNED_BY_PARK"
            /\ (c1 /\ c2 /\ c3 /\ c4 /\ ~c5) => r.ErrorStrings[1] = "STR_NONE"
            /\ rides = Before.rides /\ tileElements = Before.tileElements

\* Query on an open ride with the indestructible-track flag: the status is
\* the first check that fails
C14_Witness ==
    /\ actionResult.op = "Query"
    /\ BeforeRide # nullptr
    /\ BeforeRide.status = "Open"
    /\ "RIDE_LIFECYCLE_INDESTRUCTIBLE_TRACK" \in BeforeRide.lifecycle_flags
    /\ actionResult.result.ErrorStrings[1] = "STR_MUST_BE_CLOSED_FIRST"

C16_RideEffectsBeforeLookup ==
    actionResult.op = "Execute" =>
        /\ (BeforeRide # nullptr /\ ~IsGhostAction) =>
              /\ Len(callLog) >= 4
              /\ SubSeq(callLog, 1, 4) =
                    <<"ride_clear_for_construction", "RemovePeeps",
                      "invalidate_test_results", "FindEntranceElement">>
              /\ rides[gameAction.rideIndex].vehicles = FALSE
              /\ rides[gameAction.rideIndex].num_riders = 0
              /\ "RIDE_LIFECYCLE_TESTED" \notin rides[gameAction.rideIndex].lifecycle_flags
        /\ (actionResult.result.Error # "Ok" /\ BeforeRide # nullptr /\ ~IsGhostAction) =>
              /\ tileElements = Before.tileElements
              /\ rides[gameAction.rideIndex].entrances = BeforeRide.entrances
              /\ rides[gameAction.rideIndex].exits = BeforeRide.exits
        /\ (actionResult.result.Error # "Ok" /\ (BeforeRide = nullptr \/ IsGhostAction)) =>
              /\ rides = Before.rides
              /\ tileElements = Before.tileElements
              /\ \A i \in 1..Len(callLog) : callLog[i] = "FindEntranceElement"

\* Execute without the ghost flag failed for want of an element, and the
\* ride that had vehicles, riders and test results has none of them
C16_Witness ==
    /\ actionResult.op = "Execute"
    /\ actionResult.result.Error = "InvalidParameters"
    /\ ~IsGhostAction
    /\ BeforeRide # nullptr
    /\ BeforeRide.vehicles /\ BeforeRide.num_riders = 1
    /\ "RIDE_LIFECYCLE_TESTED" \in BeforeRide.lifecycle_flags
    /\ Candidates = {}
    /\ rides[gameAction.rideIndex].vehicles = FALSE
    /\ rides[gameAction.rideIndex].num_riders = 0
    /\ "RIDE_LIFECYCLE_TESTED" \notin rides[gameAction.rideIndex].lifecycle_flags

\* C17: FindEntranceElement returns the first element of the stack that is
\* an entrance element of the asked ride, station and kind and passes the
\* ghost filter, and nothing when there is none; with the ghost flag only a
\* ghost passes, without it a ghost and a non-ghost both pass; so the
\* element a ghost action removes is a ghost.
C17_FirstMatchingElement ==
    /\ actionResult.op \in {"FindEntranceElement", "Execute"} =>
          LET found == actionResult.element
          IN  /\ BeforeRide # nullptr \/ actionResult.op = "FindEntranceElement" =>
                    /\ found # 0 => (found \in Candidates /\ \A j \in Candidates : found <= j)
                    /\ found = 0 => Candidates = {}
              /\ (found # 0 /\ IsGhostAction) => Before.tileElements[found].ghost
    /\ (actionResult.op = "Execute" /\ Removed /\ IsGhostAction) =>
          /\ Before.tileElements[actionResult.element].ghost
          /\ \A i \in 1..Len(Before.tileElements) :
                (Before.tileElements[i].ghost = FALSE) =>
                    \E j \in 1..Len(tileElements) : tileElements[j] = Before.tileElements[i]

\* with the ghost flag, the element found is the ghost above a non-ghost of
\* the same ride, station and kind
C17_Witness ==
    /\ actionResult.op = "FindEntranceElement"
    /\ IsGhostAction
    /\ Len(tileElements) = 2
    /\ tileElements[1].type = "Entrance" /\ tileElements[2].type = "Entrance"
    /\ tileElements[1] = [tileElements[2] EXCEPT !.ghost = FALSE]
    /\ tileElements[2].ghost
    /\ actionResult.element = 2

\* C18: when Execute succeeds, the stack is the stack before without the
\* one element FindEntranceElement returned; of the ride's stored locations
\* the exit of station _stationNum is cleared when _isExit, its entrance
\* otherwise, and every other one is as before; footpath_queue_chain_reset
\* is called before tile_element_remove and footpath_update_queue_chains
\* after it; the position returned is (loc.x + 16, loc.y + 16).
C18_SuccessRemovesOneElementAndOneLocation ==
    (actionResult.op = "Execute" /\ actionResult.result.Error = "Ok") =>
        LET k == actionResult.element
            old == Before.tileElements
            ride == rides[gameAction.rideIndex]
            s == gameAction.stationNum
        IN  /\ k \in Candidates /\ \A j \in Candidates : k <= j
            /\ Len(tileElements) = Len(old) - 1
            /\ \A i \in 1..Len(tileElements) :
                  tileElements[i] = IF i < k THEN old[i] ELSE old[i + 1]
            /\ gameAction.isExit =>
                  /\ ride.exits[s] = nullptr
                  /\ \A t \in StationIndex \ {s} : ride.exits[t] = BeforeRide.exits[t]
                  /\ ride.entrances = BeforeRide.entrances
            /\ ~gameAction.isExit =>
                  /\ ride.entrances[s] = nullptr
                  /\ \A t \in StationIndex \ {s} : ride.entrances[t] = BeforeRide.entrances[t]
                  /\ ride.exits = BeforeRide.exits
            /\ \A r \in DOMAIN rides \ {gameAction.rideIndex} : rides[r] = Before.rides[r]
            /\ PlaceOf("footpath_queue_chain_reset") < PlaceOf("tile_element_remove")
            /\ PlaceOf("tile_element_remove") < PlaceOf("footpath_update_queue_chains")
            /\ Cardinality({ i \in 1..Len(callLog) : callLog[i] = "tile_element_remove" }) = 1
            /\ actionResult.result.Position =
                  [x |-> gameAction.loc.x + 16, y |-> gameAction.loc.y + 16]

\* the exit of station 0 was removed: its stored exit is cleared, its stored
\* entrance and the exit of the last station are not
C18_Witness ==
    /\ actionResult.op = "Execute"
    /\ actionResult.result.Error = "Ok"
    /\ gameAction.isExit /\ gameAction.stationNum = 0
    /\ Len(Before.tileElements) = 2 /\ Len(tileElements) = 1
    /\ BeforeRide.exits[0] # nullptr
    /\ rides[gameAction.rideIndex].exits[0] = nullptr
    /\ rides[gameAction.rideIndex].entrances[0] # nullptr
    /\ rides[gameAction.rideIndex].exits[MaxStations - 1] # nullptr
    /\ actionResult.result.Position = [x |-> 80, y |-> 112]

=============================================================================
